---- MODULE Spec2Model ----
(***************************************************************************)
(* A model of the Hash value object of src/model/primitives/hash.ts: an    *)
(* immutable 32-byte SHA3-256 digest with construction (fromBytes, parse,  *)
(* digest), accessors (getBytes, toString) and comparison (compareTo,      *)
(* equals).  Byte arrays live on a heap of Uint8Arrays so that aliasing    *)
(* between the caller's arrays and a Hash's private buffer is observable.  *)
(***************************************************************************)
EXTENDS Integers, Sequences, FiniteSets

VARIABLES
  heap,        \* the Uint8Arrays allocated so far: address -> sequence of bytes
  callerArrs,  \* addresses the caller holds a reference to (and may write)
  hashes,      \* the Hash objects: index -> [buf |-> address of this.hash]
  orig,        \* history: index -> the bytes the Hash was constructed from, and their array
  got,         \* history: the getBytes() returns: the Hash, the array, its bytes then
  tasks,       \* the digest() calls: suspended at the await, or completed
  last,        \* the outcome of the last operation
  pc,          \* position of the scenario of the pure-operation specifications
  inp,         \* the inputs that scenario was given
  out          \* the values it has computed so far

vars == <<heap, callerArrs, hashes, orig, got, tasks, last, pc, inp, out>>

heapVars == <<heap, callerArrs, hashes, orig, got, tasks, last>>

\* Hash.LENGTH
LENGTH == 32

----------------------------------------------------------------------------
(* Bounds of the model *)

\* arrays the caller allocates itself
MaxInputs == 2
\* arrays on the heap, of any origin
MaxHeap == 4
\* Hash objects constructed
MaxHashes == 2
\* digest() calls made
MaxTasks == 2
\* data arrays the caller allocates to digest
MaxData == 1
\* how many of the sample byte values the pure-operation inputs draw from
NumByteVals == 4
\* how many of the sample characters the parse inputs draw from
NumChars == 5

----------------------------------------------------------------------------
(* Bytes and bitwise operators on them *)

RECURSIVE BitXor(_, _)
\* a ^ b on non-negative integers
BitXor(a, b) ==
  IF a = 0 THEN b
  ELSE IF b = 0 THEN a
  ELSE ((((a % 2) + (b % 2)) % 2) + (2 * BitXor(a \div 2, b \div 2)))

RECURSIVE BitOr(_, _)
\* a | b on non-negative integers
BitOr(a, b) ==
  IF a = 0 THEN b
  ELSE IF b = 0 THEN a
  ELSE ((IF (a % 2) = 1 \/ (b % 2) = 1 THEN 1 ELSE 0) + (2 * BitOr(a \div 2, b \div 2)))

\* new Uint8Array(n): n zero bytes
Zeros(n) == [i \in 1..n |-> 0]

\* the array b with the byte at (0-based) index i set to v
WithByte(b, i, v) == [b EXCEPT ![i + 1] = v]

----------------------------------------------------------------------------
(* Outcomes: a returned value or a thrown error *)

NoError == [name |-> "", text |-> "", args |-> <<>>]

Ok(v) == [ok |-> TRUE, val |-> v, err |-> NoError]

Throw(e) == [ok |-> FALSE, val |-> <<>>, err |-> e]

\* new Error(`Hash validation failed: expected ${Hash.LENGTH} bytes, but got ${hash.length}.`)
LengthError(n) ==
  [name |-> "Error",
   text |-> "Hash validation failed: expected %1 bytes, but got %2.",
   args |-> <<LENGTH, n>>]

\* the TypeError decodeHex throws on a character that is no hex digit
InvalidByteError == [name |-> "TypeError", text |-> "invalid hex character", args |-> <<>>]

\* The builds of the hex collaborator the import may resolve to: whether
\* decodeHex tests the length before the characters, and whether the message
\* of its length error states the length.
LibVariants == [lenFirst : BOOLEAN, statesLen : BOOLEAN]

\* the RangeError decodeHex throws on a string of odd length n
OddLengthError(n, lib) ==
  [name |-> "RangeError", text |-> "odd length hex string",
   args |-> IF lib.statesLen THEN <<n>> ELSE <<>>]

\* whether the error's message states the number n
Surfaces(e, n) == \E k \in DOMAIN e.args : e.args[k] = n

----------------------------------------------------------------------------
(* The constructor *)

\* A mutant of HashCheck: only arrays that are too short are rejected.
HashCheckTooShort(bytes) ==
  IF Len(bytes) < LENGTH THEN Throw(LengthError(Len(bytes))) ELSE Ok(bytes)

\* the constructor's length check, on the content of the array it is given
HashCheck(bytes) ==
  IF Len(bytes) # LENGTH THEN Throw(LengthError(Len(bytes))) ELSE Ok(bytes)

\* A mutant of CtorBuffer: this.hash = hash, keeping the argument's buffer.
CtorBufferAlias(hp, a) == [heap |-> hp, buf |-> a]

\* this.hash = new Uint8Array(hash): a new array holding a copy of array a
CtorBuffer(hp, a) == [heap |-> Append(hp, hp[a]), buf |-> Len(hp) + 1]

\* A mutant of GetBytesBuffer: return this.hash itself.
GetBytesBufferAlias(hp, b) == [heap |-> hp, addr |-> b]

\* getBytes(): new Uint8Array(this.hash)
GetBytesBuffer(hp, b) == [heap |-> Append(hp, hp[b]), addr |-> Len(hp) + 1]

----------------------------------------------------------------------------
(* Hexadecimal text.  A string is a sequence of one-character strings.     *)

HexLower == <<"0", "1", "2", "3", "4", "5", "6", "7", "8", "9", "a", "b", "c", "d", "e", "f">>

HexUpper == <<"0", "1", "2", "3", "4", "5", "6", "7", "8", "9", "A", "B", "C", "D", "E", "F">>

\* the value of hex digit c, of either case; -1 when c is no hex digit
FromHexChar(c) ==
  IF \E k \in 1..16 : HexLower[k] = c
  THEN (CHOOSE k \in 1..16 : HexLower[k] = c) - 1
  ELSE IF \E k \in 1..16 : HexUpper[k] = c
  THEN (CHOOSE k \in 1..16 : HexUpper[k] = c) - 1
  ELSE -1

\* A mutant of EncodeHex: uppercase digits.
EncodeHexUpper(bytes) ==
  [k \in 1..(2 * Len(bytes)) |->
    LET b == bytes[(k + 1) \div 2]
    IN HexUpper[(IF k % 2 = 1 THEN b \div 16 ELSE b % 16) + 1]]

\* encodeHex: two lowercase digits per byte, the high nibble first
EncodeHex(bytes) ==
  [k \in 1..(2 * Len(bytes)) |->
    LET b == bytes[(k + 1) \div 2]
    IN HexLower[(IF k % 2 = 1 THEN b \div 16 ELSE b % 16) + 1]]

\* the bytes of a string of hex digits of even length
HexBytes(src) ==
  [i \in 1..(Len(src) \div 2) |->
    (16 * FromHexChar(src[(2 * i) - 1])) + FromHexChar(src[2 * i])]

\* A mutant of DecodeHex: the low nibble is read first.
DecodeHexSwapped(src, lib) ==
  IF \E k \in DOMAIN src : FromHexChar(src[k]) < 0 THEN Throw(InvalidByteError)
  ELSE IF Len(src) % 2 = 1 THEN Throw(OddLengthError(Len(src), lib))
  ELSE Ok([i \in 1..(Len(src) \div 2) |->
            (16 * FromHexChar(src[2 * i])) + FromHexChar(src[(2 * i) - 1])])

\* A mutant of DecodeHex: a character that is no hex digit is read as 0 and
\* a trailing odd character is dropped.
DecodeHexLenient(src, lib) ==
  Ok([i \in 1..(Len(src) \div 2) |->
       LET hi == FromHexChar(src[(2 * i) - 1])
           lo == FromHexChar(src[2 * i])
       IN (16 * (IF hi < 0 THEN 0 ELSE hi)) + (IF lo < 0 THEN 0 ELSE lo)])

\* decodeHex: throws a TypeError on a character that is no hex digit and a
\* RangeError on an odd length, else returns the bytes.  On a string that is
\* both, the build decides which of the two tests comes first.
DecodeHex(src, lib) ==
  LET nonHex == \E k \in DOMAIN src : FromHexChar(src[k]) < 0
      odd == Len(src) % 2 = 1
  IN IF odd /\ (lib.lenFirst \/ ~nonHex) THEN Throw(OddLengthError(Len(src), lib))
     ELSE IF nonHex THEN Throw(InvalidByteError)
     ELSE Ok(HexBytes(src))

\* hex.startsWith("0x")
StartsWith0x(hex) == Len(hex) >= 2 /\ hex[1] = "0" /\ hex[2] = "x"

\* Hash.parse(hex); a Hash is given by the 32 bytes it holds
Parse(hex, lib) ==
  LET cleanHex == IF StartsWith0x(hex) THEN SubSeq(hex, 3, Len(hex)) ELSE hex
      d == DecodeHex(cleanHex, lib)
  IN IF d.ok THEN HashCheck(d.val) ELSE d

\* h.toString()
ToString(h) == EncodeHex(h)

----------------------------------------------------------------------------
(* Comparison *)

\* an absent `other`
NULL == [null |-> TRUE, hash |-> <<>>]

\* a present `other`
Some(h) == [null |-> FALSE, hash |-> h]

\* A mutant of CompareFrom: the bytes are compared as signed 8-bit values.
RECURSIVE CompareFromSigned(_, _, _)
CompareFromSigned(x, y, i) ==
  IF i >= LENGTH THEN 0
  ELSE LET a == IF x[i + 1] >= 128 THEN x[i + 1] - 256 ELSE x[i + 1]
           b == IF y[i + 1] >= 128 THEN y[i + 1] - 256 ELSE y[i + 1]
       IN IF a # b THEN (IF a < b THEN -1 ELSE 1)
          ELSE CompareFromSigned(x, y, i + 1)

\* compareTo's loop from index i on
RECURSIVE CompareFrom(_, _, _)
CompareFrom(x, y, i) ==
  IF i >= LENGTH THEN 0
  ELSE LET a == x[i + 1]
           b == y[i + 1]
       IN IF a # b THEN (IF a < b THEN -1 ELSE 1)
          ELSE CompareFrom(x, y, i + 1)

\* x.compareTo(y)
CompareTo(x, y) == CompareFrom(x, y, 0)

\* one turn of equals' loop: diff |= this.hash[i] ^ other.hash[i]
EqualsStep(diff, x, y, i) == BitOr(diff, BitXor(x[i + 1], y[i + 1]))

\* diff after the first n turns of equals' loop
RECURSIVE EqualsDiff(_, _, _)
EqualsDiff(x, y, n) ==
  IF n = 0 THEN 0 ELSE EqualsStep(EqualsDiff(x, y, n - 1), x, y, n - 1)

\* A mutant of IsAbsent: the null check is missing.
IsAbsentNever(other) == FALSE

\* equals' `!other`
IsAbsent(other) == other.null

\* x.equals(other), for a present or absent other
Equals(x, other) ==
  IF IsAbsent(other) THEN FALSE ELSE EqualsDiff(x, other.hash, LENGTH) = 0

\* A mutant of LoopDone: the loop also ends at the first difference.
LoopDoneEarly(i, diff) == i >= LENGTH \/ diff # 0

\* the exit test of equals' loop, `i < Hash.LENGTH` failing
LoopDone(i, diff) == i >= LENGTH

----------------------------------------------------------------------------
(* The digest collaborator, crypto.subtle.digest("SHA3-256", data) *)

\* utf8("hello")
Hello == <<104, 101, 108, 108, 111>>

\* utf8("cello"): "hello" after data[0] = 99
Cello == <<99, 101, 108, 108, 111>>

\* The SHA3-256 digests of the data the model hashes (FIPS 202 values).
Sha3Table ==
  {
    <<<<>>,
      <<167, 255, 198, 248, 191, 30, 215, 102, 81, 193, 71, 86, 160, 97, 214,
      98, 245, 128, 255, 77, 228, 59, 73, 250, 130, 216, 10, 75, 128, 248, 67,
      74>>>>,
    <<Hello,
      <<51, 56, 190, 105, 79, 80, 197, 243, 56, 129, 73, 134, 205, 240, 104,
      100, 83, 168, 136, 184, 79, 66, 77, 121, 42, 244, 185, 32, 35, 152, 243,
      146>>>>,
    <<Cello,
      <<127, 99, 153, 160, 19, 138, 248, 59, 8, 61, 108, 88, 178, 2, 77, 154,
      246, 18, 118, 187, 55, 2, 5, 26, 117, 57, 255, 142, 18, 62, 46, 211>>>>,
    <<Zeros(LENGTH),
      <<158, 98, 145, 151, 12, 180, 77, 217, 64, 8, 199, 155, 202, 249, 216,
      111, 24, 180, 180, 155, 165, 178, 160, 71, 129, 219, 113, 153, 237, 59,
      158, 78>>>>,
    <<WithByte(Zeros(LENGTH), 0, 99),
      <<213, 12, 54, 238, 161, 84, 90, 101, 104, 254, 102, 177, 34, 182, 249,
      230, 46, 161, 98, 243, 243, 77, 255, 185, 192, 254, 142, 109, 140, 71,
      149, 206>>>>
  }

\* the data whose digest the table holds
Sha3Domain == {e[1] : e \in Sha3Table}

\* the 32-byte SHA3-256 digest of data
SHA3_256(data) == (CHOOSE e \in Sha3Table : e[1] = data)[2]

\* A mutant of DigestBuffer: every call writes its digest into one shared
\* output buffer, the one the first call allocated.
DigestBufferShared(hp, ts, a) ==
  IF ts = <<>>
  THEN [heap |-> Append(hp, SHA3_256(hp[a])), abuf |-> Len(hp) + 1]
  ELSE [heap |-> [hp EXCEPT ![ts[1].abuf] = SHA3_256(hp[a])], abuf |-> ts[1].abuf]

\* crypto.subtle.digest: the digest of the data as it is at the call, in a
\* new ArrayBuffer that the returned promise resolves to
DigestBuffer(hp, ts, a) ==
  [heap |-> Append(hp, SHA3_256(hp[a])), abuf |-> Len(hp) + 1]

----------------------------------------------------------------------------
(* The heap specification: the caller allocates and writes arrays, builds  *)
(* Hashes from them, reads them back and runs digest() calls that overlap. *)

\* the arrays the caller allocates
ArraySamples == {<<>>, Zeros(LENGTH - 1), Zeros(LENGTH), Zeros(LENGTH + 1)}

\* the (0-based) indices the caller writes at
MutIdx == {0, LENGTH - 1}

\* the byte values the caller writes
MutVals == {99}

Outcome(op, r, h, addr, len) ==
  [op |-> op, ok |-> r.ok, err |-> r.err, h |-> h, addr |-> addr, len |-> len]

HeapInit ==
  /\ heap = <<>>
  /\ callerArrs = {}
  /\ hashes = <<>>
  /\ orig = <<>>
  /\ got = <<>>
  /\ tasks = <<>>
  /\ last = Outcome("init", Ok(<<>>), 0, 0, 0)

Init ==
  /\ HeapInit
  /\ pc = "heap"
  /\ inp = <<>>
  /\ out = <<>>

\* the data arrays the caller allocates to digest
DataSamples == {<<>>, Hello, Zeros(LENGTH)}

\* the caller's `new Uint8Array(...)` / `new TextEncoder().encode(...)` of data
NewData ==
  \E s \in DataSamples :
    /\ Cardinality(callerArrs) < MaxData
    /\ heap' = Append(heap, s)
    /\ callerArrs' = callerArrs \cup {Len(heap) + 1}
    /\ last' = Outcome("alloc", Ok(<<>>), 0, 0, 0)
    /\ UNCHANGED <<hashes, orig, got, tasks, pc, inp, out>>

\* the caller's own `new Uint8Array(...)`
NewArray ==
  \E s \in ArraySamples :
    /\ Len(heap) < MaxHeap
    /\ Cardinality(callerArrs \ {g.addr : g \in {got[k] : k \in DOMAIN got}}) < MaxInputs
    /\ heap' = Append(heap, s)
    /\ callerArrs' = callerArrs \cup {Len(heap) + 1}
    /\ last' = Outcome("alloc", Ok(<<>>), 0, 0, 0)
    /\ UNCHANGED <<hashes, orig, got, tasks, pc, inp, out>>

\* the caller's `arr[i] = v` on an array it holds
Mutate ==
  \E a \in callerArrs, i \in MutIdx, v \in MutVals :
    /\ i < Len(heap[a])
    /\ heap[a][i + 1] # v
    /\ heap' = [heap EXCEPT ![a] = WithByte(heap[a], i, v)]
    /\ last' = Outcome("mutate", Ok(<<>>), 0, 0, 0)
    /\ UNCHANGED <<callerArrs, hashes, orig, got, tasks, pc, inp, out>>

\* Hash.fromBytes(bytes)
FromBytes ==
  \E a \in callerArrs :
    LET r == HashCheck(heap[a])
        c == CtorBuffer(heap, a)
    IN /\ Len(heap) < MaxHeap
       /\ Len(hashes) < MaxHashes
       /\ IF r.ok
          THEN /\ heap' = c.heap
               /\ hashes' = Append(hashes, [buf |-> c.buf])
               /\ orig' = Append(orig, [bytes |-> heap[a], src |-> a])
               /\ last' = Outcome("fromBytes", r, Len(hashes) + 1, a, Len(heap[a]))
          ELSE /\ UNCHANGED <<heap, hashes, orig>>
               /\ last' = Outcome("fromBytes", r, 0, a, Len(heap[a]))
       /\ UNCHANGED <<callerArrs, got, tasks, pc, inp, out>>

\* h.getBytes()
GetBytes ==
  \E h \in DOMAIN hashes :
    LET g == GetBytesBuffer(heap, hashes[h].buf)
    IN /\ Len(heap) < MaxHeap
       /\ heap' = g.heap
       /\ callerArrs' = callerArrs \cup {g.addr}
       /\ got' = Append(got, [h |-> h, addr |-> g.addr, bytes |-> g.heap[g.addr]])
       /\ last' = Outcome("getBytes", Ok(<<>>), h, g.addr, Len(g.heap[g.addr]))
       /\ UNCHANGED <<hashes, orig, tasks, pc, inp, out>>

\* Hash.digest(data), up to its await
DigestCall ==
  \E a \in callerArrs :
    LET d == DigestBuffer(heap, tasks, a)
    IN /\ heap[a] \in Sha3Domain
       /\ Len(tasks) < MaxTasks
       /\ heap' = d.heap
       /\ tasks' = Append(tasks, [abuf |-> d.abuf, data |-> a, snap |-> heap[a], h |-> 0])
       /\ last' = Outcome("digestCall", Ok(<<>>), 0, 0, 0)
       /\ UNCHANGED <<callerArrs, hashes, orig, got, pc, inp, out>>

\* Hash.digest(data), from its await on: new Hash(new Uint8Array(arrayBuffer)).
\* The Uint8Array is a view of the ArrayBuffer, the constructor copies it.
DigestResume ==
  \E t \in DOMAIN tasks :
    LET r == HashCheck(heap[tasks[t].abuf])
        c == CtorBuffer(heap, tasks[t].abuf)
    IN /\ tasks[t].h = 0
       /\ IF r.ok
          THEN /\ heap' = c.heap
               /\ hashes' = Append(hashes, [buf |-> c.buf])
               /\ orig' = Append(orig, [bytes |-> heap[tasks[t].abuf], src |-> tasks[t].abuf])
               /\ tasks' = [tasks EXCEPT ![t].h = Len(hashes) + 1]
               /\ last' = Outcome("digest", r, Len(hashes) + 1, tasks[t].abuf, LENGTH)
          ELSE /\ UNCHANGED <<heap, hashes, orig>>
               /\ tasks' = [tasks EXCEPT ![t].h = -1]
               /\ last' = Outcome("digest", r, 0, tasks[t].abuf, Len(heap[tasks[t].abuf]))
       /\ UNCHANGED <<callerArrs, got, pc, inp, out>>

Next ==
  \/ NewArray
  \/ Mutate
  \/ FromBytes
  \/ GetBytes

Spec == Init /\ [][Next]_vars

\* the addresses of the Hashes' private buffers
HashBufs == {hashes[h].buf : h \in DOMAIN hashes}

\* C1: whatever the caller writes into the array it passed to fromBytes or
\* into arrays getBytes() returned, every Hash still holds, and every
\* getBytes() returned, the 32 bytes the Hash was constructed with; and each
\* getBytes() return is a fresh array: not the Hash's buffer, not an array
\* returned before.
DefensiveCopy ==
  /\ \A h \in DOMAIN hashes :
       /\ heap[hashes[h].buf] = orig[h].bytes
       /\ hashes[h].buf \notin callerArrs
  /\ \A k \in DOMAIN got :
       /\ got[k].bytes = orig[got[k].h].bytes
       /\ got[k].addr \notin HashBufs
       /\ \A j \in DOMAIN got : j # k => got[j].addr # got[k].addr

\* C1's case: the caller has overwritten both the array it built a Hash from
\* and an array an earlier getBytes() returned, and getBytes() ran again.
DefensiveCopyWitness ==
  \E h \in DOMAIN hashes : \E j, k \in DOMAIN got :
    /\ j < k
    /\ got[j].h = h
    /\ got[k].h = h
    /\ heap[got[j].addr] # orig[h].bytes
    /\ heap[orig[h].src] # orig[h].bytes
    /\ last.op = "getBytes"

\* C5: fromBytes on an array of length n # 32 throws the constructor's error,
\* whose message states 32 and n, and leaves no Hash behind; every Hash
\* there is holds exactly 32 bytes.
LengthInvariant ==
  /\ [](/\ \A h \in DOMAIN hashes : Len(heap[hashes[h].buf]) = LENGTH
        /\ (last.op = "fromBytes" /\ last.len # LENGTH) =>
              /\ ~last.ok
              /\ last.h = 0
              /\ last.err.name = "Error"
              /\ last.err.args = <<LENGTH, last.len>>
              /\ Surfaces(last.err, 32)
              /\ Surfaces(last.err, last.len))
  /\ [][(last'.op = "fromBytes" /\ ~last'.ok) => (hashes' = hashes /\ heap' = heap)]_vars

\* C5's case: a fromBytes on 33 bytes has just failed while Hashes exist.
LengthInvariantWitness ==
  /\ last.op = "fromBytes"
  /\ last.len = LENGTH + 1
  /\ ~last.ok
  /\ Len(hashes) > 0

----------------------------------------------------------------------------
(* The digest specification: digest() calls on the caller's data, whose    *)
(* suspensions at the await and completions interleave in any order, while *)
(* the caller goes on writing the data.                                    *)

NextDigest ==
  \/ NewData
  \/ Mutate
  \/ DigestCall
  \/ DigestResume

SpecDigest == Init /\ [][NextDigest]_vars

\* C8: however the digest() calls overlap, each one that has completed did so
\* with a Hash of its own whose bytes are the SHA3-256 digest of the data that
\* call was given; no two Hashes share a buffer, none shares one with a
\* call's ArrayBuffer or with the caller; calls on identical data hold
\* identical bytes.
DigestIndependent ==
  /\ \A t \in DOMAIN tasks : tasks[t].h # 0 =>
       /\ tasks[t].h \in DOMAIN hashes
       /\ heap[hashes[tasks[t].h].buf] = SHA3_256(tasks[t].snap)
       /\ hashes[tasks[t].h].buf \notin callerArrs
       /\ \A u \in DOMAIN tasks :
            /\ hashes[tasks[t].h].buf # tasks[u].abuf
            /\ (u # t /\ tasks[u].h # 0) =>
                 /\ tasks[u].h # tasks[t].h
                 /\ hashes[tasks[u].h].buf # hashes[tasks[t].h].buf
                 /\ (tasks[u].snap = tasks[t].snap =>
                       heap[hashes[tasks[u].h].buf] = heap[hashes[tasks[t].h].buf])

\* C8's case: two calls on different data overlapped, and the one made later
\* completed first.
DigestIndependentWitness ==
  /\ Len(tasks) >= 2
  /\ tasks[1].h = 2
  /\ tasks[2].h = 1
  /\ tasks[1].snap # tasks[2].snap

----------------------------------------------------------------------------
(* Inputs of the pure operations *)

\* the byte values the inputs are built from
BytePool == <<0, 1, 128, 255, 171, 16, 127>>

ByteVals == {BytePool[k] : k \in 1..(IF NumByteVals < Len(BytePool) THEN NumByteVals ELSE Len(BytePool))}

\* the characters the parse inputs are built from
CharPool == <<"0", "1", "f", "A", "g", "x", "X">>

Chars == {CharPool[k] : k \in 1..(IF NumChars < Len(CharPool) THEN NumChars ELSE Len(CharPool))}

\* 32 bytes, zero but at the first and the last index
Bytes2(a, b) == WithByte(WithByte(Zeros(LENGTH), 0, a), LENGTH - 1, b)

\* 32 bytes, zero but at the first, a middle and the last index
Bytes3(a, b, c) == WithByte(Bytes2(a, c), LENGTH \div 2, b)

HashSamples == {Bytes2(a, b) : a \in ByteVals, b \in ByteVals}

RoundSamples == {Bytes3(a, b, c) : a \in ByteVals, b \in ByteVals, c \in ByteVals}

\* a string of n characters, "0" but for the first and the last
Body(n, c1, c2) == [k \in 1..n |-> IF k = 1 THEN c1 ELSE IF k = n THEN c2 ELSE "0"]

BodyLens == {4, (2 * LENGTH) - 1, 2 * LENGTH, (2 * LENGTH) + 1, (2 * LENGTH) + 2}

Prefixes == {<<>>, <<"0", "x">>, <<"0", "X">>}

HexInputs ==
  {pre \o Body(n, c1, c2) : pre \in Prefixes, n \in BodyLens, c1 \in Chars, c2 \in Chars}

----------------------------------------------------------------------------
(* The parse specification: parse a string, parse it again behind each     *)
(* prefix, then print and compare what was parsed.                         *)

InitParse ==
  /\ HeapInit
  /\ pc = "start"
  /\ inp \in {[hex |-> s, lib |-> l] : s \in HexInputs, l \in LibVariants}
  /\ out = <<>>

ParseStep ==
  /\ pc = "start"
  /\ out' = [res |-> Parse(inp.hex, inp.lib)]
  /\ pc' = "parsed"
  /\ UNCHANGED <<heapVars, inp>>

PrefixStep ==
  /\ pc = "parsed"
  /\ out' = [res |-> out.res,
             lower |-> Parse(<<"0", "x">> \o inp.hex, inp.lib),
             upper |-> Parse(<<"0", "X">> \o inp.hex, inp.lib)]
  /\ pc' = "prefixed"
  /\ UNCHANGED <<heapVars, inp>>

InspectStep ==
  /\ pc = "prefixed"
  /\ out' = [res |-> out.res, lower |-> out.lower, upper |-> out.upper,
             str |-> IF out.res.ok THEN ToString(out.res.val) ELSE <<>>,
             lowerStr |-> IF out.lower.ok THEN ToString(out.lower.val) ELSE <<>>,
             upperStr |-> IF out.upper.ok THEN ToString(out.upper.val) ELSE <<>>,
             eqLower |-> out.res.ok /\ out.lower.ok
                           /\ Equals(out.res.val, Some(out.lower.val))
                           /\ Equals(out.lower.val, Some(out.res.val)),
             eqUpper |-> out.res.ok /\ out.upper.ok
                           /\ Equals(out.res.val, Some(out.upper.val))
                           /\ Equals(out.upper.val, Some(out.res.val))]
  /\ pc' = "printed"
  /\ UNCHANGED <<heapVars, inp>>

NextParse ==
  \/ ParseStep
  \/ PrefixStep
  \/ InspectStep

SpecParse == InitParse /\ [][NextParse]_vars

\* the hex digits, of either case
HexDigits == {HexLower[k] : k \in 1..16} \cup {HexUpper[k] : k \in 1..16}

AllHex(s) == \A k \in DOMAIN s : s[k] \in HexDigits

\* s is 64 hex digits
Valid64(s) == Len(s) = 2 * LENGTH /\ AllHex(s)

\* s without a leading "0x" or "0X"
Unprefixed(s) ==
  IF Len(s) >= 2 /\ s[1] = "0" /\ s[2] \in {"x", "X"} THEN SubSeq(s, 3, Len(s)) ELSE s

\* s without a leading "0x"
Unprefixed0x(s) ==
  IF Len(s) >= 2 /\ s[1] = "0" /\ s[2] = "x" THEN SubSeq(s, 3, Len(s)) ELSE s

\* s starts with a hex prefix
HasPrefix(s) == Len(s) >= 2 /\ s[1] = "0" /\ s[2] \in {"x", "X"}

\* what is left of s behind an optional prefix holds a character that is no
\* hex digit, or is of odd length, or decodes to other than 32 bytes
BadInput(s) ==
  LET c == Unprefixed(s)
  IN \/ ~AllHex(c)
     \/ Len(c) % 2 = 1
     \/ (AllHex(c) /\ Len(c) % 2 = 0 /\ Len(c) \div 2 # LENGTH)

\* C6 as stated: parse of a string with a non-hex character, an odd length or
\* a byte count other than 32 fails with a message that surfaces 32.
ParseErrorSurfaces32 ==
  (pc # "start" /\ BadInput(inp.hex)) =>
    (~out.res.ok /\ Surfaces(out.res.err, 32))

\* s starts with the uppercase prefix "0X"
HasUpperPrefix(s) == Len(s) >= 2 /\ s[1] = "0" /\ s[2] = "X"

\* C6 amended: parse of such a string fails and yields no Hash.  For a string
\* that is bare or behind "0x": the message surfaces 32 exactly when the
\* string behind the prefix is hex digits of even length, the failure then
\* being the constructor's length check; on a non-hex character or an odd
\* length the error is decodeHex's TypeError or RangeError, which does not.
ParseErrorKinds ==
  (pc # "start" /\ BadInput(inp.hex)) =>
    LET c == Unprefixed0x(inp.hex)
        decodes == AllHex(c) /\ Len(c) % 2 = 0
    IN /\ ~out.res.ok
       /\ out.res.val = <<>>
       /\ ~HasUpperPrefix(inp.hex) =>
            /\ Surfaces(out.res.err, 32) <=> decodes
            /\ decodes =>
                 (out.res.err.name = "Error" /\ out.res.err.args = <<32, Len(c) \div 2>>)
            /\ ~decodes => out.res.err.name \in {"TypeError", "RangeError"}

\* C6's case: 63 zeros and a "g" has been parsed, and the error does not
\* surface 32.
ParseErrorKindsWitness ==
  /\ pc = "parsed"
  /\ inp.hex = Body(2 * LENGTH, "0", "g")
  /\ ~out.res.ok
  /\ ~Surfaces(out.res.err, 32)

\* C7: a valid 64-digit string parses alike bare, behind "0x" and behind
\* "0X", and no prefix shows in toString().
PrefixTolerantBothCases ==
  (pc = "printed" /\ Valid64(inp.hex)) =>
    /\ out.res.ok /\ out.lower.ok /\ out.upper.ok
    /\ out.eqLower /\ out.eqUpper
    /\ ~HasPrefix(out.str) /\ ~HasPrefix(out.lowerStr) /\ ~HasPrefix(out.upperStr)

\* 63 zeros and a "1": 64 characters
TestHex1 == Body(2 * LENGTH, "0", "1")

\* C10 as stated: parse of 63 zeros and a "1" fails.
ParseTestHex1Fails ==
  (pc # "start" /\ inp.hex = TestHex1) => ~out.res.ok

\* C10 amended: parse of 63 zeros and a "1" (64 hex digits, 32 bytes) returns
\* the Hash of 31 zero bytes and a 1, which prints as the same string.
ParseTestHex1 ==
  /\ (pc # "start" /\ inp.hex = TestHex1) =>
       (out.res.ok /\ out.res.val = WithByte(Zeros(LENGTH), LENGTH - 1, 1))
  /\ (pc = "printed" /\ inp.hex = TestHex1) => out.str = TestHex1

\* C10's case: that string has been parsed and printed.
ParseTestHex1Witness ==
  /\ pc = "printed"
  /\ inp.hex = TestHex1
  /\ Len(inp.hex) = 64
  /\ out.res.ok

----------------------------------------------------------------------------
(* The round-trip specification: fromBytes, toString, parse, equals.       *)

InitRound ==
  /\ HeapInit
  /\ pc = "start"
  /\ inp \in {[bytes |-> b, lib |-> l] : b \in RoundSamples, l \in LibVariants}
  /\ out = <<>>

RoundFromBytes ==
  /\ pc = "start"
  /\ out' = [h |-> HashCheck(inp.bytes)]
  /\ pc' = "built"
  /\ UNCHANGED <<heapVars, inp>>

RoundToString ==
  /\ pc = "built"
  /\ out.h.ok
  /\ out' = [h |-> out.h, str |-> ToString(out.h.val)]
  /\ pc' = "printed"
  /\ UNCHANGED <<heapVars, inp>>

RoundParse ==
  /\ pc = "printed"
  /\ out' = [h |-> out.h, str |-> out.str, back |-> Parse(out.str, inp.lib)]
  /\ pc' = "parsed"
  /\ UNCHANGED <<heapVars, inp>>

RoundEquals ==
  /\ pc = "parsed"
  /\ out.back.ok
  /\ out' = [h |-> out.h, str |-> out.str, back |-> out.back,
             eq |-> Equals(out.back.val, Some(out.h.val))]
  /\ pc' = "compared"
  /\ UNCHANGED <<heapVars, inp>>

NextRound ==
  \/ RoundFromBytes
  \/ RoundToString
  \/ RoundParse
  \/ RoundEquals

SpecRound == InitRound /\ [][NextRound]_vars

\* C2: for 32 bytes b, fromBytes(b).toString() is 64 lowercase hex digits
\* without a prefix, parse of it succeeds, and the parsed Hash equals
\* fromBytes(b).
RoundTrip ==
  /\ pc # "start" => out.h.ok
  /\ pc \in {"printed", "parsed", "compared"} =>
       /\ Len(out.str) = 2 * LENGTH
       /\ \A k \in DOMAIN out.str : \E d \in 1..16 : out.str[k] = HexLower[d]
       /\ ~HasPrefix(out.str)
  /\ pc \in {"parsed", "compared"} => (out.back.ok /\ out.back.val = inp.bytes)
  /\ pc = "compared" => out.eq

\* C2's case: bytes with high and low values have gone round and compared.
RoundTripWitness ==
  /\ pc = "compared"
  /\ inp.bytes[1] = 255
  /\ inp.bytes[(LENGTH \div 2) + 1] = 128
  /\ inp.bytes[LENGTH] = 1
  /\ out.eq

----------------------------------------------------------------------------
(* The ordering specification: compareTo and equals on three Hashes.       *)

InitCmp ==
  /\ HeapInit
  /\ pc = "start"
  /\ inp \in {[x |-> a, y |-> b, z |-> c] : a \in HashSamples, b \in HashSamples, c \in HashSamples}
  /\ out = <<>>

CompareStep ==
  /\ pc = "start"
  /\ out' = [xy |-> CompareTo(inp.x, inp.y), yx |-> CompareTo(inp.y, inp.x),
             yz |-> CompareTo(inp.y, inp.z), xz |-> CompareTo(inp.x, inp.z),
             xx |-> CompareTo(inp.x, inp.x)]
  /\ pc' = "ordered"
  /\ UNCHANGED <<heapVars, inp>>

EqualsCheckStep ==
  /\ pc = "ordered"
  /\ out' = [xy |-> out.xy, yx |-> out.yx, yz |-> out.yz, xz |-> out.xz, xx |-> out.xx,
             eqxy |-> Equals(inp.x, Some(inp.y)), eqyx |-> Equals(inp.y, Some(inp.x))]
  /\ pc' = "compared"
  /\ UNCHANGED <<heapVars, inp>>

NextCmp ==
  \/ CompareStep
  \/ EqualsCheckStep

SpecCmp == InitCmp /\ [][NextCmp]_vars

Sign(n) == IF n < 0 THEN -1 ELSE IF n > 0 THEN 1 ELSE 0

\* the sign of x[i] - y[i], bytes as unsigned numbers, at the first index i
\* where x and y differ; 0 when they do not
FirstDiffSign(x, y) ==
  LET D == {i \in 1..LENGTH : x[i] # y[i]}
  IN IF D = {} THEN 0
     ELSE LET i == CHOOSE i \in D : \A j \in D : i <= j
          IN Sign(x[i] - y[i])

\* C3: compareTo returns -1, 0 or 1, the sign of the unsigned difference at
\* the first differing byte; it is reflexive, antisymmetric and transitive,
\* and equals holds exactly when it returns 0.
TotalOrder ==
  /\ pc \in {"ordered", "compared"} =>
       /\ {out.xy, out.yx, out.yz, out.xz, out.xx} \subseteq {-1, 0, 1}
       /\ out.xy = FirstDiffSign(inp.x, inp.y)
       /\ out.yz = FirstDiffSign(inp.y, inp.z)
       /\ out.xx = 0
       /\ out.xy = -out.yx
       /\ (out.xy <= 0 /\ out.yz <= 0) => out.xz <= 0
       /\ (out.xy = 0) <=> (inp.x = inp.y)
  /\ pc = "compared" =>
       /\ out.eqxy <=> (out.xy = 0)
       /\ out.eqyx <=> (out.yx = 0)

\* C3's case: x is below y by a first byte 1 < 128 though above it in the
\* last byte, y is below z, and all were compared.
TotalOrderWitness ==
  /\ pc = "compared"
  /\ inp.x[1] = 1 /\ inp.y[1] = 128
  /\ inp.x[LENGTH] = 255 /\ inp.y[LENGTH] = 0
  /\ out.xy = -1
  /\ out.yz = -1
  /\ out.xz = -1
  /\ ~out.eqxy

----------------------------------------------------------------------------
(* The equality specification: equals, one turn of its loop at a time.     *)

InitEq ==
  /\ HeapInit
  /\ pc = "start"
  /\ inp \in {[x |-> a, other |-> o] :
               a \in HashSamples, o \in {NULL} \cup {Some(b) : b \in HashSamples}}
  /\ out = [i |-> 0, diff |-> 0, steps |-> 0, result |-> FALSE, threw |-> FALSE]

\* equals up to its loop; reading other.hash of an absent other would throw
EqualsCall ==
  /\ pc = "start"
  /\ IF IsAbsent(inp.other)
     THEN /\ out' = [out EXCEPT !.result = FALSE]
          /\ pc' = "done"
     ELSE IF inp.other.null
     THEN /\ out' = [out EXCEPT !.threw = TRUE]
          /\ pc' = "done"
     ELSE /\ out' = [out EXCEPT !.diff = 0, !.i = 0]
          /\ pc' = "loop"
  /\ UNCHANGED <<heapVars, inp>>

\* one turn of the loop
EqualsLoop ==
  /\ pc = "loop"
  /\ ~LoopDone(out.i, out.diff)
  /\ out' = [out EXCEPT !.diff = EqualsStep(out.diff, inp.x, inp.other.hash, out.i),
                        !.i = out.i + 1,
                        !.steps = out.steps + 1]
  /\ UNCHANGED <<heapVars, inp, pc>>

\* return diff === 0
EqualsReturn ==
  /\ pc = "loop"
  /\ LoopDone(out.i, out.diff)
  /\ out' = [out EXCEPT !.result = (out.diff = 0)]
  /\ pc' = "done"
  /\ UNCHANGED <<heapVars, inp>>

NextEq ==
  \/ EqualsCall
  \/ EqualsLoop
  \/ EqualsReturn

SpecEq == InitEq /\ [][NextEq]_vars

\* C4: equals against a present Hash takes 32 turns of its loop whatever the
\* two Hashes are, and returns true exactly when the OR of the XORs of all 32
\* byte pairs is 0, that is when the Hashes hold the same bytes.
ConstantTimeEquals ==
  (pc = "done" /\ ~inp.other.null) =>
    /\ out.steps = LENGTH
    /\ out.i = LENGTH
    /\ ~out.threw
    /\ out.diff = EqualsDiff(inp.x, inp.other.hash, LENGTH)
    /\ out.result <=> (out.diff = 0)
    /\ out.result <=> (inp.x = inp.other.hash)

\* C4's case: equals has returned false on two Hashes that differ in their
\* first byte already.
ConstantTimeEqualsWitness ==
  /\ pc = "done"
  /\ ~inp.other.null
  /\ inp.x[1] # inp.other.hash[1]
  /\ out.steps = LENGTH
  /\ ~out.result

\* C9: equals against an absent other returns false and does not throw.
EqualsAbsent ==
  (pc = "done" /\ inp.other.null) => (~out.result /\ ~out.threw)

\* C9's case: equals has returned on an absent other.
EqualsAbsentWitness ==
  /\ pc = "done"
  /\ inp.other = NULL
  /\ inp.x[1] = 255
  /\ ~out.result

====
